---- MODULE Spec2Model ----
(***************************************************************************)
(* Model of smbnego.Response (src/smbnego/response.go): a []byte viewed as *)
(* an SMB2 NEGOTIATE response.  The buffer is modelled byte by byte; the   *)
(* getters and setters decode and encode little-endian at fixed offsets;   *)
(* Valid() is the structural validity check.                               *)
(*                                                                         *)
(* Go indexes from 0 and TLA+ sequences from 1: Go's r[i] is r[i+1] here.  *)
(* TLC's integers are 32-bit signed, so a value that may reach 2^32 (a     *)
(* uint32 field, a uint sum) is kept as two 16-bit limbs [hi, lo] standing *)
(* for hi * 65536 + lo.                                                    *)
(***************************************************************************)
EXTENDS Integers, Sequences, FiniteSets, TLC

VARIABLES r, rlen, uintBits, nsets, op, arg, ret

vars == <<r, rlen, uintBits, nsets, op, arg, ret>>

(* ------------------------------ bounds --------------------------------- *)

\* Largest number of bytes a buffer holds after the 64-byte fixed region.
MaxTail == 16

\* Largest number of setter calls in one run of the builder specification.
MaxSets == 2

(* --------------------------- program constants -------------------------- *)

\* smbdialect.SMB311 = 0x0311
SMB311 == 785

\* ContextHeaderLength: "The size of each context is variable but at least 8 bytes."
ContextHeaderLength == 8

\* The length of the fixed region, and the required value of StructureSize.
HeaderLength == 64
StructureSize == 65

(* ------------------------------ integers -------------------------------- *)

Limb == 256 * 256

\* A 32-bit (or wider) natural as two limbs.
Wide(hi, lo) == [hi |-> hi, lo |-> lo]

\* uint(x) of a uint16 or an int known to be small and non-negative.
WideOf(x) == Wide(x \div Limb, x % Limb)

\* Go's uint on the platform: 32 bits wrap modulo 2^32; at 64 bits the sums
\* formed here stay below 2^33 and never reach the modulus.
WrapUint(hi, bits) == IF bits = 32 THEN hi % Limb ELSE hi

\* a + b in Go's uint of the given width.
UintAdd(a, b, bits) ==
  LET lo == a.lo + b.lo
  IN  Wide(WrapUint(a.hi + b.hi + (lo \div Limb), bits), lo % Limb)

\* a * k in Go's uint of the given width, for a small constant k.
UintMul(a, k, bits) ==
  LET lo == a.lo * k
  IN  Wide(WrapUint(a.hi * k + (lo \div Limb), bits), lo % Limb)

\* a > b on limbs.
WideGreater(a, b) == a.hi > b.hi \/ (a.hi = b.hi /\ a.lo > b.lo)

(* --------------------------- encoding/binary ---------------------------- *)

Zeros(n) == [i \in 1..n |-> 0]

\* binary.LittleEndian.Uint16(b[off:off+2])
Uint16(b, off) == b[off + 1] + 256 * b[off + 2]

\* binary.LittleEndian.PutUint16(b[off:off+2], v)
PutUint16(b, off, v) ==
  [b EXCEPT ![off + 1] = v % 256, ![off + 2] = (v \div 256) % 256]

\* binary.LittleEndian.Uint32(b[off:off+4])
Uint32(b, off) == Wide(Uint16(b, off + 2), Uint16(b, off))

\* binary.LittleEndian.PutUint32(b[off:off+4], v)
PutUint32(b, off, v) == PutUint16(PutUint16(b, off, v.lo), off + 2, v.hi)

\* copy(b[off:off+len(s)], s)
PutBytes(b, off, s) ==
  [i \in 1..Len(b) |-> IF i > off /\ i <= off + Len(s) THEN s[i - off] ELSE b[i]]

\* r[lo:hi] panics when hi exceeds the capacity of r.
SliceOK(b, hi) == hi <= Len(b)

(* -------------------- collaborators outside response.go ---------------- *)

\* smbid.ID.Read / ID.Write: a 16-byte opaque identifier copied from and to
\* a 16-byte region.
IDRead(b, off) == SubSeq(b, off + 1, off + 16)
IDWrite(b, off, id) == PutBytes(b, off, id)

\* smbtype.Time / smbtype.PutTime: the 8-byte little-endian tick count of a
\* timestamp, as four 16-bit limbs, least significant first.
Time(b, off) == [i \in 1..4 |-> Uint16(b, off + 2 * (i - 1))]
PutTime(b, off, t) ==
  PutUint16(PutUint16(PutUint16(PutUint16(b, off, t[1]), off + 2, t[2]),
                      off + 4, t[3]), off + 6, t[4])

\* One negotiate context record: an 8-byte header whose 16-bit field at
\* offset 2 is the length of the data that follows it.
ContextLength(list) == ContextHeaderLength + Uint16(list, 2)

\* ContextList.Valid(count): exactly count records can be parsed from the
\* list without reading past its end.
RECURSIVE ContextListValid(_, _)
ContextListValid(list, count) ==
  IF count = 0 THEN TRUE
  ELSE IF Len(list) < ContextHeaderLength THEN FALSE
  ELSE IF ContextLength(list) > Len(list) THEN FALSE
  ELSE ContextListValid(SubSeq(list, ContextLength(list) + 1, Len(list)), count - 1)

(* ------------------------- getters and setters -------------------------- *)
\* Each getter G(b) and setter SetG(b, v) is the body of the method on a
\* buffer whose capacity covers the field; the calls below add the panic.

Size(b) == Uint16(b, 0)
SetSize(b, size) == PutUint16(b, 0, size)

SecurityMode(b) == Uint16(b, 2)
SetSecurityMode(b, flags) == PutUint16(b, 2, flags)

DialectRevision(b) == Uint16(b, 4)
SetDialectRevision(b, revision) == PutUint16(b, 4, revision)

ContextCount(b) == Uint16(b, 6)
SetContextCount(b, size) == PutUint16(b, 6, size)

ServerID(b) == IDRead(b, 8)
SetServerID(b, id) == IDWrite(b, 8, id)

Capabilities(b) == Uint32(b, 24)
SetCapabilities(b, flags) == PutUint32(b, 24, flags)

MaxTransactSize(b) == Uint32(b, 28)
SetMaxTransactSize(b, flags) == PutUint32(b, 28, flags)

MaxReadSize(b) == Uint32(b, 32)
\* Faulty variant: the value is written over MaxTransactSize.
SetMaxReadSize_WrongOffset(b, flags) == PutUint32(b, 28, flags)

SetMaxReadSize(b, flags) == PutUint32(b, 32, flags)

MaxWriteSize(b) == Uint32(b, 36)
SetMaxWriteSize(b, flags) == PutUint32(b, 36, flags)

SystemTime(b) == Time(b, 40)
SetSystemTime(b, t) == PutTime(b, 40, t)

ServerStartTime(b) == Time(b, 48)
SetServerStartTime(b, t) == PutTime(b, 48, t)

SecurityBufferOffset(b) == Uint16(b, 56)
SetSecurityBufferOffset(b, offset) == PutUint16(b, 56, offset)

SecurityBufferLength(b) == Uint16(b, 58)
\* Faulty variant: the length is written over the offset field.
SetSecurityBufferLength_WrongOffset(b, length) == PutUint16(b, 56, length)

SetSecurityBufferLength(b, length) == PutUint16(b, 58, length)

ContextOffset(b) == Uint32(b, 60)
SetContextOffset(b, size) == PutUint32(b, 60, size)

(* ---------------------- SecurityBuffer, ContextList --------------------- *)

\* SecurityBuffer: end := uint(offset) + uint(length); r[start:end:end]
\* panics when end exceeds cap(r) (start <= end always: both are 16-bit).
SecurityBufferEnd(b) == SecurityBufferOffset(b) + SecurityBufferLength(b)
SecurityBufferPanics(b) == SecurityBufferEnd(b) > Len(b)
SecurityBuffer(b) == SubSeq(b, SecurityBufferOffset(b) + 1, SecurityBufferEnd(b))

\* ContextList: r[r.ContextOffset():] panics when the offset exceeds len(r).
ContextListPanics(b, n) == WideGreater(ContextOffset(b), WideOf(n))
ContextList(b, n) == SubSeq(b, ContextOffset(b).lo + 1, n)

(* --------------------------------- Valid -------------------------------- *)

\* minimumLength := uint(r.ContextOffset()) + uint(r.ContextCount())*ContextHeaderLength
MinimumLength(b, bits) ==
  UintAdd(ContextOffset(b),
          UintMul(WideOf(ContextCount(b)), ContextHeaderLength, bits), bits)

\* Faulty variant: the boundary is exclusive.
SecurityBufferOverflows_Exclusive(b, n) ==
  SecurityBufferOffset(b) + SecurityBufferLength(b) >= n

\* Faulty variant: the sum is formed in 16 bits.
SecurityBufferOverflows_Wrap16(b, n) ==
  (SecurityBufferOffset(b) + SecurityBufferLength(b)) % Limb > n

\* int(r.SecurityBufferOffset())+int(r.SecurityBufferLength()) > len(r)
SecurityBufferOverflows(b, n) ==
  SecurityBufferOffset(b) + SecurityBufferLength(b) > n

\* Faulty variant: the boundary is exclusive.
ContextsOverflow_Exclusive(b, n, bits) ==
  ~WideGreater(WideOf(n), MinimumLength(b, bits))

\* minimumLength > uint(len(r))
ContextsOverflow(b, n, bits) == WideGreater(MinimumLength(b, bits), WideOf(n))

\* Faulty variant: the capacity is checked in place of the length.
TooShort_Cap(b, n) == Len(b) < HeaderLength

\* len(r) < 64
TooShort(b, n) == n < HeaderLength

\* Faulty variant: any structure size of at least 65 is accepted.
WrongSize_AtLeast(b) == Size(b) < StructureSize

\* r.Size() != 65
WrongSize(b) == Size(b) # StructureSize

\* Faulty variant: the branch is keyed on SMB 3.0.2 (0x0302).
IsSMB311_Bad(b) == DialectRevision(b) = 770

\* r.DialectRevision() == smbdialect.SMB311
IsSMB311(b) == DialectRevision(b) = SMB311

\* Valid() on buffer b of length n: "false", "true", or "panic" when the
\* call to ContextList() raises a bounds error.
Valid(b, n, bits) ==
  IF TooShort(b, n) THEN "false"
  ELSE IF WrongSize(b) THEN "false"
  ELSE IF SecurityBufferOverflows(b, n) THEN "false"
  ELSE IF IsSMB311(b)
       THEN IF ContextsOverflow(b, n, bits) THEN "false"
            ELSE IF ContextListPanics(b, n) THEN "panic"
            ELSE IF ~ContextListValid(ContextList(b, n), ContextCount(b)) THEN "false"
            ELSE "true"
  ELSE "true"

(* ------------------------------ call records ---------------------------- *)
\* op names the method called last, arg its argument and ret what it gave
\* back: a panic (a Go bounds error), a boolean verdict, a number or bytes.

NoBytes == <<>>
NoArg == [n |-> Wide(0, 0), bytes |-> NoBytes]
ArgNum(w) == [n |-> w, bytes |-> NoBytes]
ArgBytes(s) == [n |-> Wide(0, 0), bytes |-> s]

NoRet == [panic |-> FALSE, out |-> "", n |-> Wide(0, 0), bytes |-> NoBytes]
Panic == [NoRet EXCEPT !.panic = TRUE]
RetNum(w) == [NoRet EXCEPT !.n = w]
RetBytes(s) == [NoRet EXCEPT !.bytes = s]
RetOut(o) == IF o = "panic" THEN Panic ELSE [NoRet EXCEPT !.out = o]

\* A getter: the buffer is only read.
Get(name, hi, result) ==
  /\ op' = name
  /\ arg' = NoArg
  /\ ret' = IF SliceOK(r, hi) THEN result ELSE Panic
  /\ UNCHANGED <<r, rlen, uintBits, nsets>>

\* A setter: the slice expression panics before anything is written.
Set(name, hi, a, written) ==
  /\ nsets < MaxSets
  /\ nsets' = nsets + 1
  /\ op' = name
  /\ arg' = a
  /\ IF SliceOK(r, hi) THEN r' = written /\ ret' = NoRet
                       ELSE r' = r /\ ret' = Panic
  /\ UNCHANGED <<rlen, uintBits>>

(* ------------------------------- the inputs ----------------------------- *)

Uint16Values == {258, 65535}
Uint32Values == {Wide(258, 772), Wide(65535, 65535)}
IDValues == {[i \in 1..16 |-> i], [i \in 1..16 |-> 255]}
TimeValues == {<<258, 772, 1286, 1800>>}

SizeValues == {StructureSize, 258}
DialectValues == {SMB311, 770}
SecurityBufferOffsetValues == {0, HeaderLength, 65535}
SecurityBufferLengthValues == {0, 1}
ContextCountValues == {0, 1, 2}
ContextOffsetValues ==
  {Wide(0, 0), Wide(0, HeaderLength), Wide(0, HeaderLength + ContextHeaderLength),
   Wide(65535, 65536 - 2 * ContextHeaderLength)}
TailValues == {0, ContextHeaderLength}

\* The lengths and capacities of the buffers a caller hands over.
Shapes ==
  {[len |-> 0, cap |-> 0],
   [len |-> HeaderLength - 1, cap |-> HeaderLength - 1],
   [len |-> HeaderLength - 1, cap |-> HeaderLength + MaxTail],
   [len |-> HeaderLength, cap |-> HeaderLength],
   [len |-> HeaderLength + 1, cap |-> HeaderLength + 1],
   [len |-> HeaderLength, cap |-> HeaderLength + MaxTail],
   [len |-> HeaderLength + MaxTail, cap |-> HeaderLength + MaxTail]}

\* The buffers a response is built in.
BuildShapes ==
  {[len |-> 0, cap |-> 0],
   [len |-> HeaderLength - 1, cap |-> HeaderLength - 1],
   [len |-> HeaderLength + MaxTail, cap |-> HeaderLength + MaxTail]}

UintWidths == {32, 64}

\* A received packet: the header fields as given, then a tail whose first
\* context record (at offset 64) declares tailb bytes of data.
Packet(size, dialect, sbo, sbl, cnt, off, tailb) ==
  LET z == Zeros(HeaderLength + MaxTail + 8)
      h == SetContextOffset(SetContextCount(SetSecurityBufferLength(
             SetSecurityBufferOffset(SetDialectRevision(SetSize(z, size), dialect),
                                     sbo), sbl), cnt), off)
  IN  PutUint16(h, HeaderLength + 2, tailb)

(* -------------------------------- actions ------------------------------- *)

CallSize == Get("Size", 2, RetNum(WideOf(Size(r))))

CallSetSize ==
  \E v \in SizeValues :
    Set("SetSize", 2, ArgNum(WideOf(v)), SetSize(r, v))

CallSecurityMode == Get("SecurityMode", 4, RetNum(WideOf(SecurityMode(r))))

CallSetSecurityMode ==
  \E v \in Uint16Values :
    Set("SetSecurityMode", 4, ArgNum(WideOf(v)), SetSecurityMode(r, v))

CallDialectRevision == Get("DialectRevision", 6, RetNum(WideOf(DialectRevision(r))))

CallSetDialectRevision ==
  \E v \in DialectValues :
    Set("SetDialectRevision", 6, ArgNum(WideOf(v)), SetDialectRevision(r, v))

CallContextCount == Get("ContextCount", 8, RetNum(WideOf(ContextCount(r))))

CallSetContextCount ==
  \E v \in ContextCountValues :
    Set("SetContextCount", 8, ArgNum(WideOf(v)), SetContextCount(r, v))

CallServerID == Get("ServerID", 24, RetBytes(ServerID(r)))

CallSetServerID ==
  \E id \in IDValues :
    Set("SetServerID", 24, ArgBytes(id), SetServerID(r, id))

CallCapabilities == Get("Capabilities", 28, RetNum(Capabilities(r)))

CallSetCapabilities ==
  \E v \in Uint32Values :
    Set("SetCapabilities", 28, ArgNum(v), SetCapabilities(r, v))

CallMaxTransactSize == Get("MaxTransactSize", 32, RetNum(MaxTransactSize(r)))

CallSetMaxTransactSize ==
  \E v \in Uint32Values :
    Set("SetMaxTransactSize", 32, ArgNum(v), SetMaxTransactSize(r, v))

CallMaxReadSize == Get("MaxReadSize", 36, RetNum(MaxReadSize(r)))

CallSetMaxReadSize ==
  \E v \in Uint32Values :
    Set("SetMaxReadSize", 36, ArgNum(v), SetMaxReadSize(r, v))

CallMaxWriteSize == Get("MaxWriteSize", 40, RetNum(MaxWriteSize(r)))

CallSetMaxWriteSize ==
  \E v \in Uint32Values :
    Set("SetMaxWriteSize", 40, ArgNum(v), SetMaxWriteSize(r, v))

CallSystemTime == Get("SystemTime", 48, RetBytes(SystemTime(r)))

CallSetSystemTime ==
  \E t \in TimeValues :
    Set("SetSystemTime", 48, ArgBytes(t), SetSystemTime(r, t))

CallServerStartTime == Get("ServerStartTime", 56, RetBytes(ServerStartTime(r)))

CallSetServerStartTime ==
  \E t \in TimeValues :
    Set("SetServerStartTime", 56, ArgBytes(t), SetServerStartTime(r, t))

CallSecurityBufferOffset == Get("SecurityBufferOffset", 58, RetNum(WideOf(SecurityBufferOffset(r))))

CallSetSecurityBufferOffset ==
  \E v \in SecurityBufferOffsetValues :
    Set("SetSecurityBufferOffset", 58, ArgNum(WideOf(v)), SetSecurityBufferOffset(r, v))

CallSecurityBufferLength == Get("SecurityBufferLength", 60, RetNum(WideOf(SecurityBufferLength(r))))

CallSetSecurityBufferLength ==
  \E v \in SecurityBufferLengthValues :
    Set("SetSecurityBufferLength", 60, ArgNum(WideOf(v)), SetSecurityBufferLength(r, v))

CallContextOffset == Get("ContextOffset", 64, RetNum(ContextOffset(r)))

CallSetContextOffset ==
  \E v \in ContextOffsetValues :
    Set("SetContextOffset", 64, ArgNum(v), SetContextOffset(r, v))

CallValid ==
  /\ op' = "Valid"
  /\ arg' = NoArg
  /\ ret' = RetOut(Valid(r, rlen, uintBits))
  /\ UNCHANGED <<r, rlen, uintBits, nsets>>

CallSecurityBuffer ==
  /\ op' = "SecurityBuffer"
  /\ arg' = NoArg
  /\ ret' = IF ~SliceOK(r, 60) \/ SecurityBufferPanics(r) THEN Panic
            ELSE RetBytes(SecurityBuffer(r))
  /\ UNCHANGED <<r, rlen, uintBits, nsets>>

CallContextList ==
  /\ op' = "ContextList"
  /\ arg' = NoArg
  /\ ret' = IF ~SliceOK(r, 64) \/ ContextListPanics(r, rlen) THEN Panic
            ELSE RetBytes(ContextList(r, rlen))
  /\ UNCHANGED <<r, rlen, uintBits, nsets>>

(* ----------------------------- specifications --------------------------- *)

Start(b, n, bits) ==
  /\ r = b
  /\ rlen = n
  /\ uintBits = bits
  /\ nsets = 0
  /\ op = "new"
  /\ arg = NoArg
  /\ ret = NoRet

\* Building a response: a zeroed buffer, then any calls.
Init ==
  \E s \in BuildShapes, bits \in UintWidths : Start(Zeros(s.cap), s.len, bits)

\* Decoding a response: a received packet, then calls that only read.
InitDecode ==
  \E s \in Shapes, bits \in UintWidths, size \in SizeValues, dialect \in DialectValues,
     sbo \in SecurityBufferOffsetValues, sbl \in SecurityBufferLengthValues,
     cnt \in ContextCountValues, off \in ContextOffsetValues, tailb \in TailValues :
    Start(SubSeq(Packet(size, dialect, sbo, sbl, cnt, off, tailb), 1, s.cap),
          s.len, bits)

Read ==
  \/ CallSize
  \/ CallSecurityMode
  \/ CallDialectRevision
  \/ CallContextCount
  \/ CallServerID
  \/ CallCapabilities
  \/ CallMaxTransactSize
  \/ CallMaxReadSize
  \/ CallMaxWriteSize
  \/ CallSystemTime
  \/ CallServerStartTime
  \/ CallSecurityBufferOffset
  \/ CallSecurityBufferLength
  \/ CallContextOffset
  \/ CallValid
  \/ CallSecurityBuffer
  \/ CallContextList

Write ==
  \/ CallSetSize
  \/ CallSetSecurityMode
  \/ CallSetDialectRevision
  \/ CallSetContextCount
  \/ CallSetServerID
  \/ CallSetCapabilities
  \/ CallSetMaxTransactSize
  \/ CallSetMaxReadSize
  \/ CallSetMaxWriteSize
  \/ CallSetSystemTime
  \/ CallSetServerStartTime
  \/ CallSetSecurityBufferOffset
  \/ CallSetSecurityBufferLength
  \/ CallSetContextOffset

Next == Read \/ Write

Spec == Init /\ [][Next]_vars

SpecDecode == InitDecode /\ [][Read]_vars

(* ------------------------------ properties ------------------------------ *)

\* The outcome of Valid() on the buffer as it stands.
Verdict == Valid(r, rlen, uintBits)

\* A call of Valid() that has just returned gave back the verdict v.
ValidGave(v) == op = "Valid" => ret = RetOut(v)

\* The layout table: each setter's field as <<offset, width>>.
Layout ==
  [SetSize |-> <<0, 2>>, SetSecurityMode |-> <<2, 2>>,
   SetDialectRevision |-> <<4, 2>>, SetContextCount |-> <<6, 2>>,
   SetServerID |-> <<8, 16>>, SetCapabilities |-> <<24, 4>>,
   SetMaxTransactSize |-> <<28, 4>>, SetMaxReadSize |-> <<32, 4>>,
   SetMaxWriteSize |-> <<36, 4>>, SetSystemTime |-> <<40, 8>>,
   SetServerStartTime |-> <<48, 8>>, SetSecurityBufferOffset |-> <<56, 2>>,
   SetSecurityBufferLength |-> <<58, 2>>, SetContextOffset |-> <<60, 4>>]

Setters == DOMAIN Layout
IntegerSetters == Setters \ {"SetServerID", "SetSystemTime", "SetServerStartTime"}

\* The bytes of buffer b that the layout table gives to a setter's field.
FieldBytes(b, set) == SubSeq(b, Layout[set][1] + 1, Layout[set][1] + Layout[set][2])

\* What the getter paired with a setter returns on buffer b.
GetterOf(set, b) ==
  CASE set = "SetSize" -> WideOf(Size(b))
    [] set = "SetSecurityMode" -> WideOf(SecurityMode(b))
    [] set = "SetDialectRevision" -> WideOf(DialectRevision(b))
    [] set = "SetContextCount" -> WideOf(ContextCount(b))
    [] set = "SetServerID" -> ServerID(b)
    [] set = "SetCapabilities" -> Capabilities(b)
    [] set = "SetMaxTransactSize" -> MaxTransactSize(b)
    [] set = "SetMaxReadSize" -> MaxReadSize(b)
    [] set = "SetMaxWriteSize" -> MaxWriteSize(b)
    [] set = "SetSystemTime" -> SystemTime(b)
    [] set = "SetServerStartTime" -> ServerStartTime(b)
    [] set = "SetSecurityBufferOffset" -> WideOf(SecurityBufferOffset(b))
    [] set = "SetSecurityBufferLength" -> WideOf(SecurityBufferLength(b))
    [] set = "SetContextOffset" -> ContextOffset(b)

\* The k little-endian bytes of the number w, least significant first.
LittleEndian(w, k) ==
  [i \in 1..k |->
     LET limb == IF i <= 2 THEN w.lo ELSE w.hi
     IN  IF i % 2 = 1 THEN limb % 256 ELSE limb \div 256]

\* ContextOffset + ContextCount * 8 as a natural number, with no wrapping.
ExactMinimumLength(b) ==
  LET lo == ContextOffset(b).lo + ContextCount(b) * ContextHeaderLength
  IN  Wide(ContextOffset(b).hi + (lo \div Limb), lo % Limb)

\* The SMB 3.1.1 branch of Valid() is reached on the buffer as it stands.
ReachesContextCheck ==
  /\ rlen >= HeaderLength
  /\ Size(r) = StructureSize
  /\ SecurityBufferOffset(r) + SecurityBufferLength(r) <= rlen
  /\ DialectRevision(r) = SMB311

\* The context list lies within the buffer and is valid for ContextCount records.
ContextListGood ==
  /\ ~WideGreater(ContextOffset(r), WideOf(rlen))
  /\ ContextListValid(SubSeq(r, ContextOffset(r).lo + 1, rlen), ContextCount(r))

\* C1: a buffer shorter than 64 bytes is invalid, whatever it holds.
C1_ShortBufferInvalid ==
  rlen < HeaderLength => Verdict = "false" /\ ValidGave("false")

C1_Witness ==
  /\ op = "Valid"
  /\ rlen = HeaderLength - 1
  /\ Len(r) > HeaderLength
  /\ Size(r) = StructureSize
  /\ SecurityBufferOffset(r) = 0
  /\ ret.out = "false"

\* C2: a buffer of at least 64 bytes whose StructureSize is not 65 is
\* invalid, whatever the other fields hold.
C2_WrongSizeInvalid ==
  (rlen >= HeaderLength /\ Size(r) # StructureSize)
    => Verdict = "false" /\ ValidGave("false")

C2_Witness ==
  /\ op = "Valid"
  /\ rlen >= HeaderLength
  /\ Size(r) = 258
  /\ SecurityBufferOffset(r) + SecurityBufferLength(r) <= rlen
  /\ DialectRevision(r) # SMB311
  /\ ret.out = "false"

\* C3: with StructureSize 65 and a dialect other than SMB 3.1.1, Valid() is
\* true exactly when SecurityBufferOffset + SecurityBufferLength <= length.
C3_SecurityBufferBoundary ==
  (rlen >= HeaderLength /\ Size(r) = StructureSize /\ DialectRevision(r) # SMB311)
    => /\ Verdict = (IF SecurityBufferOffset(r) + SecurityBufferLength(r) <= rlen
                     THEN "true" ELSE "false")
       /\ ValidGave(Verdict)

C3_Witness ==
  /\ op = "Valid"
  /\ rlen >= HeaderLength
  /\ Size(r) = StructureSize
  /\ DialectRevision(r) # SMB311
  /\ SecurityBufferLength(r) = 1
  /\ SecurityBufferOffset(r) + SecurityBufferLength(r) = rlen
  /\ ContextOffset(r).hi = 65535
  /\ ret.out = "true"

\* C4: on the SMB 3.1.1 branch Valid() is true exactly when
\* ContextOffset + ContextCount * 8 <= length and the context list reports
\* valid for ContextCount.
C4_ContextBranch ==
  ReachesContextCheck
    => /\ (Verdict = "true") <=>
            (/\ ~WideGreater(ExactMinimumLength(r), WideOf(rlen))
             /\ ContextListValid(ContextList(r, rlen), ContextCount(r)))
       /\ ValidGave(Verdict)

C4_Witness ==
  /\ op = "Valid"
  /\ ReachesContextCheck
  /\ ContextCount(r) = 2
  /\ ContextOffset(r) = Wide(0, HeaderLength)
  /\ rlen = HeaderLength + 2 * ContextHeaderLength
  /\ ret.out = "true"

\* C5 as stated: whenever Valid() is true, ContextList() raises no bounds
\* error and its list is valid for ContextCount records.
C5_AnyDialect ==
  (op = "ContextList" /\ Verdict = "true")
    => ContextListGood /\ ret = RetBytes(ContextList(r, rlen))

\* C5 as amended: the same, for a response whose dialect is SMB 3.1.1.
C5_SMB311ContextList ==
  (op = "ContextList" /\ Verdict = "true" /\ DialectRevision(r) = SMB311)
    => ContextListGood /\ ret = RetBytes(ContextList(r, rlen))

C5_Witness ==
  /\ op = "ContextList"
  /\ Verdict = "true"
  /\ DialectRevision(r) = SMB311
  /\ ContextCount(r) = 2
  /\ Len(ret.bytes) = 2 * ContextHeaderLength

\* C6: whenever Valid() is true, SecurityBuffer() raises no bounds error and
\* returns the bytes at [SecurityBufferOffset, SecurityBufferOffset +
\* SecurityBufferLength), all of them inside the buffer's length.
C6_SecurityBufferInBounds ==
  Verdict = "true"
    => /\ ~SecurityBufferPanics(r)
       /\ SecurityBufferOffset(r) + SecurityBufferLength(r) <= rlen
       /\ Len(SecurityBuffer(r)) = SecurityBufferLength(r)
       /\ \A i \in 1..SecurityBufferLength(r) :
            SecurityBuffer(r)[i] = r[SecurityBufferOffset(r) + i]
       /\ op = "SecurityBuffer" => ret = RetBytes(SecurityBuffer(r))

C6_Witness ==
  /\ op = "SecurityBuffer"
  /\ Verdict = "true"
  /\ SecurityBufferLength(r) = 1
  /\ ret.bytes = <<StructureSize>>

\* C7: on a buffer of at least 64 bytes, a setter called with v leaves v for
\* its getter, stored little-endian at the field's offset.
C7_RoundTrip ==
  (op \in Setters /\ rlen >= HeaderLength)
    => /\ ~ret.panic
       /\ op \in IntegerSetters
            => /\ GetterOf(op, r) = arg.n
               /\ FieldBytes(r, op) = LittleEndian(arg.n, Layout[op][2])
       /\ op = "SetServerID" => ServerID(r) = arg.bytes

C7_Witness ==
  /\ op = "SetContextOffset"
  /\ rlen >= HeaderLength
  /\ arg.n = Wide(65535, 65536 - 2 * ContextHeaderLength)
  /\ ContextOffset(r) = arg.n

\* C8 as stated: on the SMB 3.1.1 branch minimumLength is the exact sum
\* ContextOffset + ContextCount * 8 at either width of uint, so a sum that
\* exceeds the length never passes the check.
C8_NoWrap ==
  (op = "Valid" /\ ReachesContextCheck)
    => /\ MinimumLength(r, uintBits) = ExactMinimumLength(r)
       /\ WideGreater(ExactMinimumLength(r), WideOf(rlen))
            => ContextsOverflow(r, rlen, uintBits) /\ ret.out = "false"

\* C9: on a buffer of at least 64 bytes a setter changes only the bytes of
\* its own field: the length, every other byte and every other field's
\* getter are as before.
C9_SetterFrame ==
  [][(op' \in Setters /\ rlen >= HeaderLength)
       => /\ rlen' = rlen
          /\ Len(r') = Len(r)
          /\ SubSeq(r', 1, Layout[op'][1]) = SubSeq(r, 1, Layout[op'][1])
          /\ SubSeq(r', Layout[op'][1] + Layout[op'][2] + 1, Len(r))
               = SubSeq(r, Layout[op'][1] + Layout[op'][2] + 1, Len(r))
          /\ \A g \in Setters \ {op'} : GetterOf(g, r') = GetterOf(g, r)]_vars

C9_Witness ==
  /\ op = "SetContextOffset"
  /\ ~ret.panic
  /\ nsets = 2
  /\ ContextOffset(r) = Wide(0, HeaderLength)
  /\ Size(r) = StructureSize

\* C10 as stated: Valid() always returns true or false, raising no bounds
\* error, changes no byte, and gives the same answer when called again.
C10_TotalAndPure ==
  [][op' = "Valid"
       => /\ ~ret'.panic
          /\ ret'.out \in {"true", "false"}
          /\ r' = r /\ rlen' = rlen
          /\ op = "Valid" => ret' = ret]_vars

====
